---- MODULE Spec2Model ----
(***************************************************************************)
(* A model of jsonl_viewer/cli.py: one invocation of the viewer, from the  *)
(* file on disk and the parsed command line to the process's exit.         *)
(*                                                                         *)
(* Text is modelled as TLA+ strings, character by character.  A decoded    *)
(* JSON value is the record [t, a, e]: its tag t, the text a of an atom,   *)
(* and the entries e of a container (<<key, value>> pairs as [k, v]; an    *)
(* array's keys are "").  Input files are drawn from the part of JSON the  *)
(* decoder below covers: objects, arrays, strings with the escapes         *)
(* \" \\ \/ \n, unsigned integers, true, false, null, and the whitespace   *)
(* characters space, tab and line feed.                                    *)
(***************************************************************************)
EXTENDS Integers, Sequences, FiniteSets, TLC

VARIABLES
  file,          \* [exists, content]: the path's state on disk
  args,          \* the argparse namespace of main
  pc,            \* position of the invocation
  lines,         \* load_jsonl: the lines the file iterator yields
  i,             \* load_jsonl / extract_agent_code: the enumerate index
  records,       \* the loaded records (a JSON value; normally an array)
  format_type,   \* "jsonl" | "trajectory" | "" before detection
  stdout,        \* what was printed to stdout, in order
  stderr,        \* what was printed to stderr, in order
  exit_code,     \* "" while running, "0", "1", or "fault" (an uncaught exception)
  ran,           \* the operations main has called, in order
  code_changes,  \* extract_agent_code: the list of changes
  origin,        \* for each element of code_changes: where the scan found it
  saved          \* extract_agent_code: the writes made to the output directory

vars == <<file, args, pc, lines, i, records, format_type, stdout, stderr,
          exit_code, ran, code_changes, origin, saved>>

(***************************************************************************)
(* Python values                                                           *)
(***************************************************************************)
Null == [t |-> "null", a |-> "", e |-> <<>>]
Bool(b) == [t |-> "bool", a |-> IF b THEN "true" ELSE "false", e |-> <<>>]
Num(text) == [t |-> "num", a |-> text, e |-> <<>>]
Str(text) == [t |-> "str", a |-> text, e |-> <<>>]
Arr(vals) == [t |-> "arr", a |-> "", e |-> [j \in 1..Len(vals) |-> [k |-> "", v |-> vals[j]]]]
Obj(entries) == [t |-> "obj", a |-> "", e |-> entries]
PyInt(n) == Num(ToString(n))

Ch(s, j) == SubSeq(s, j, j)

Elems(v) == [j \in 1..Len(v.e) |-> v.e[j].v]

\* isinstance(v, dict)
IsDict(v) == v.t = "obj"

HasKey(d, key) == \E j \in 1..Len(d.e) : d.e[j].k = key

\* dict.get(key, default)
Get(d, key, default) ==
  IF HasKey(d, key)
  THEN d.e[CHOOSE j \in 1..Len(d.e) : d.e[j].k = key].v
  ELSE default

\* d[key] = val, as json's object decoding applies it: a repeated key keeps
\* its place and takes the later value
ObjPut(entries, key, val) ==
  IF \E j \in 1..Len(entries) : entries[j].k = key
  THEN [j \in 1..Len(entries) |->
          IF entries[j].k = key THEN [k |-> key, v |-> val] ELSE entries[j]]
  ELSE Append(entries, [k |-> key, v |-> val])

\* bool(v)
Truthy(v) ==
  CASE v.t = "null" -> FALSE
    [] v.t = "bool" -> v.a = "true"
    [] v.t = "num" -> v.a # "0"
    [] v.t = "str" -> v.a # ""
    [] OTHER -> v.e # <<>>

\* len(v) raises TypeError for these
NoLen(v) == v.t \in {"null", "bool", "num"}

PyLen(v) == IF v.t = "str" THEN Len(v.a) ELSE Len(v.e)

\* iter(v) raises TypeError for these
NotIterable(v) == v.t \in {"null", "bool", "num"}

\* list(v): a list's elements, a dict's keys, a str's characters
Iter(v) ==
  CASE v.t = "arr" -> Elems(v)
    [] v.t = "obj" -> [j \in 1..Len(v.e) |-> Str(v.e[j].k)]
    [] v.t = "str" -> [j \in 1..Len(v.a) |-> Str(Ch(v.a, j))]

\* v == 'text'
EqStr(v, text) == v.t = "str" /\ v.a = text

(***************************************************************************)
(* json.loads                                                              *)
(***************************************************************************)
IsWs(c) == c \in {" ", "\t", "\n", "\r"}

Digits == {"0", "1", "2", "3", "4", "5", "6", "7", "8", "9"}

RECURSIVE SkipWs(_, _)
SkipWs(s, j) == IF j <= Len(s) /\ IsWs(Ch(s, j)) THEN SkipWs(s, j + 1) ELSE j

Fail == [ok |-> FALSE, v |-> Null, n |-> 0]
Ok(val, next) == [ok |-> TRUE, v |-> val, n |-> next]

\* The first quote, escape or control character of s from position j on,
\* or 0.
NextMark(s, j) ==
  LET marks == {x \in j..Len(s) : Ch(s, x) \in {"\"", "\\", "\n", "\t", "\r"}} IN
  IF marks = {} THEN 0
  ELSE CHOOSE x \in marks : \A y \in marks : x <= y

\* The body of a string literal from position j (after the opening quote),
\* acc the characters decoded so far: up to the next quote, escape or
\* control character, which decides how it goes on.
RECURSIVE ScanString(_, _, _)
ScanString(s, j, acc) ==
  LET q == NextMark(s, j) IN
  IF q = 0 THEN Fail
  ELSE LET c == Ch(s, q)
           got == acc \o SubSeq(s, j, q - 1) IN
    CASE c = "\"" -> Ok(Str(got), q + 1)
      [] c = "\\" ->
           IF q + 1 > Len(s) THEN Fail
           ELSE LET d == Ch(s, q + 1) IN
             CASE d \in {"\"", "\\", "/"} -> ScanString(s, q + 2, got \o d)
               [] d = "n" -> ScanString(s, q + 2, got \o "\n")
               [] OTHER -> Fail
      [] OTHER -> Fail

RECURSIVE ScanDigits(_, _)
ScanDigits(s, j) == IF j <= Len(s) /\ Ch(s, j) \in Digits THEN ScanDigits(s, j + 1) ELSE j

Literal(s, j, word, val) ==
  IF j + Len(word) - 1 <= Len(s) /\ SubSeq(s, j, j + Len(word) - 1) = word
  THEN Ok(val, j + Len(word))
  ELSE Fail

RECURSIVE ParseValue(_, _)
RECURSIVE ParseElems(_, _, _)
RECURSIVE ParseMembers(_, _, _)

\* One JSON value starting at position j (no leading whitespace).
ParseValue(s, j) ==
  IF j > Len(s) THEN Fail
  ELSE LET c == Ch(s, j) IN
    CASE c = "{" ->
           LET q == SkipWs(s, j + 1) IN
           IF q <= Len(s) /\ Ch(s, q) = "}" THEN Ok(Obj(<<>>), q + 1)
           ELSE ParseMembers(s, q, <<>>)
      [] c = "[" ->
           LET q == SkipWs(s, j + 1) IN
           IF q <= Len(s) /\ Ch(s, q) = "]" THEN Ok(Arr(<<>>), q + 1)
           ELSE ParseElems(s, q, <<>>)
      [] c = "\"" -> ScanString(s, j + 1, "")
      [] c \in Digits ->
           LET q == ScanDigits(s, j) IN
           IF c = "0" /\ q > j + 1 THEN Ok(Num("0"), j + 1)
           ELSE Ok(Num(SubSeq(s, j, q - 1)), q)
      [] c = "n" -> Literal(s, j, "null", Null)
      [] c = "t" -> Literal(s, j, "true", Bool(TRUE))
      [] c = "f" -> Literal(s, j, "false", Bool(FALSE))
      [] OTHER -> Fail

\* The elements of an array from position j (at an element), acc those decoded.
ParseElems(s, j, acc) ==
  LET r == ParseValue(s, j) IN
  IF ~r.ok THEN Fail
  ELSE LET q == SkipWs(s, r.n) IN
    IF q > Len(s) THEN Fail
    ELSE IF Ch(s, q) = "]" THEN Ok(Arr(Append(acc, r.v)), q + 1)
    ELSE IF Ch(s, q) = "," THEN ParseElems(s, SkipWs(s, q + 1), Append(acc, r.v))
    ELSE Fail

\* The members of an object from position j (at a key), acc those decoded.
ParseMembers(s, j, acc) ==
  IF j > Len(s) \/ Ch(s, j) # "\"" THEN Fail
  ELSE LET key == ScanString(s, j + 1, "") IN
    IF ~key.ok THEN Fail
    ELSE LET c == SkipWs(s, key.n) IN
      IF c > Len(s) \/ Ch(s, c) # ":" THEN Fail
      ELSE LET r == ParseValue(s, SkipWs(s, c + 1)) IN
        IF ~r.ok THEN Fail
        ELSE LET q == SkipWs(s, r.n)
                 got == ObjPut(acc, key.v.a, r.v) IN
          IF q > Len(s) THEN Fail
          ELSE IF Ch(s, q) = "}" THEN Ok(Obj(got), q + 1)
          ELSE IF Ch(s, q) = "," THEN ParseMembers(s, SkipWs(s, q + 1), got)
          ELSE Fail

\* json.loads(s): [ok, v]; ok = FALSE is json.JSONDecodeError
loads(s) ==
  LET r == ParseValue(s, SkipWs(s, 1)) IN
  IF r.ok /\ SkipWs(s, r.n) = Len(s) + 1 THEN [ok |-> TRUE, v |-> r.v]
  ELSE [ok |-> FALSE, v |-> Null]

(***************************************************************************)
(* str.strip and the text file iterator                                    *)
(***************************************************************************)
RECURSIVE RStripEnd(_, _)
RStripEnd(s, j) == IF j >= 1 /\ IsWs(Ch(s, j)) THEN RStripEnd(s, j - 1) ELSE j

strip(s) ==
  LET b == SkipWs(s, 1)
      e == RStripEnd(s, Len(s)) IN
  IF b > e THEN "" ELSE SubSeq(s, b, e)

\* The lines of a text, each with its line feed, as iterating the file yields.
readlines(s) ==
  LET ends == {j \in 1..Len(s) : Ch(s, j) = "\n" \/ j = Len(s)}
      end(n) == CHOOSE x \in ends : Cardinality({y \in ends : y <= x}) = n
      start(n) == IF n = 1 THEN 1 ELSE end(n - 1) + 1 IN
  [n \in 1..Cardinality(ends) |-> SubSeq(s, start(n), end(n))]

(***************************************************************************)
(* json.dumps and print_json                                               *)
(***************************************************************************)
EscapeChar(c) ==
  CASE c = "\"" -> "\\\""
    [] c = "\\" -> "\\\\"
    [] c = "\n" -> "\\n"
    [] c = "\t" -> "\\t"
    [] OTHER -> c

RECURSIVE Escape(_)
Escape(s) == IF s = "" THEN "" ELSE EscapeChar(Ch(s, 1)) \o Escape(SubSeq(s, 2, Len(s)))

Quote(s) == "\"" \o Escape(s) \o "\""

RECURSIVE Spaces(_)
Spaces(n) == IF n <= 0 THEN "" ELSE " " \o Spaces(n - 1)

RECURSIVE Join(_, _)
Join(parts, sep) ==
  IF parts = <<>> THEN ""
  ELSE IF Len(parts) = 1 THEN parts[1]
  ELSE parts[1] \o sep \o Join(Tail(parts), sep)

\* json.dumps(v, indent=2, ensure_ascii=False) when pretty, at nesting depth
\* `depth`; json.dumps(v, ensure_ascii=False) otherwise
RECURSIVE dumps(_, _, _)
dumps(v, pretty, depth) ==
  LET open == IF pretty THEN "\n" \o Spaces(2 * (depth + 1)) ELSE ""
      sep == IF pretty THEN "," \o open ELSE ", "
      close == IF pretty THEN "\n" \o Spaces(2 * depth) ELSE "" IN
  CASE v.t = "str" -> Quote(v.a)
    [] v.t \in {"num", "bool", "null"} -> IF v.t = "null" THEN "null" ELSE v.a
    [] v.t = "arr" ->
         IF v.e = <<>> THEN "[]"
         ELSE "[" \o open
              \o Join([j \in 1..Len(v.e) |-> dumps(v.e[j].v, pretty, depth + 1)], sep)
              \o close \o "]"
    [] v.t = "obj" ->
         IF v.e = <<>> THEN "{}"
         ELSE "{" \o open
              \o Join([j \in 1..Len(v.e) |->
                         Quote(v.e[j].k) \o ": " \o dumps(v.e[j].v, pretty, depth + 1)], sep)
              \o close \o "}"

\* One printed item: its kind, its text, a number and a value it carries.
Out(kind, text, n, obj) == [kind |-> kind, text |-> text, n |-> n, obj |-> obj]

NoOpt == [set |-> FALSE, n |-> 0, s |-> ""]
IntOpt(n) == [set |-> TRUE, n |-> n, s |-> ""]
StrOpt(s) == [set |-> TRUE, n |-> 0, s |-> s]

\* the truth value of an option: None, 0 and '' are false
OptTruthy(o) == o.set /\ (o.n # 0 \/ o.s # "")

\* the mark print_json appends to a cut text (the source's is in Chinese)
TruncatedMark == "\n... (truncated)"

\* print_json(obj, truncate): the text printed
print_json(obj, truncate) ==
  LET output == dumps(obj, TRUE, 0) IN
  IF OptTruthy(truncate) /\ Len(output) > truncate.n
  THEN (IF truncate.n >= 0 THEN SubSeq(output, 1, truncate.n)
        ELSE IF Len(output) + truncate.n <= 0 THEN ""
        ELSE SubSeq(output, 1, Len(output) + truncate.n)) \o TruncatedMark
  ELSE output

(***************************************************************************)
(* The operations.  Each returns what the call did: whether an exception   *)
(* left it uncaught (fault), what it printed to stdout (out) and stderr    *)
(* (err) until then, and whether it called sys.exit(1) (exit).             *)
(***************************************************************************)
Done(out, err) == [fault |-> FALSE, exit |-> FALSE, out |-> out, err |-> err]
Fault(out, err) == [fault |-> TRUE, exit |-> FALSE, out |-> out, err |-> err]
Exit1(out, err) == [fault |-> FALSE, exit |-> TRUE, out |-> out, err |-> err]

\* records[idx] for a 0-based idx within len(records): a dict has no integer keys
NoItem(recs) == recs.t = "obj"

Item(recs, idx) == Iter(recs)[idx + 1]

show_line(recs, line_num, truncate) ==
  LET idx == line_num - 1 IN
  IF NoLen(recs) THEN Fault(<<>>, <<>>)
  ELSE IF 0 <= idx /\ idx < PyLen(recs)
  THEN IF NoItem(recs) THEN Fault(<<Out("line_header", "", line_num, Null)>>, <<>>)
       ELSE Done(<<Out("line_header", "", line_num, Null),
                   Out("json", print_json(Item(recs, idx), truncate), 0, Item(recs, idx))>>,
                 <<>>)
  ELSE Exit1(<<>>, <<Out("line_out_of_range", "", PyLen(recs), Null)>>)

\* the loop of show_by_type from the j-th record on
RECURSIVE ByTypeFrom(_, _, _, _, _, _)
ByTypeFrom(rs, j, type_filter, truncate, out, found) ==
  IF j > Len(rs)
  THEN Done(out, IF found THEN <<>> ELSE <<Out("type_not_found", type_filter, 0, Null)>>)
  ELSE IF ~IsDict(rs[j]) THEN Fault(out, <<>>)
  ELSE IF EqStr(Get(rs[j], "type", Null), type_filter)
  THEN ByTypeFrom(rs, j + 1, type_filter, truncate,
                  out \o <<Out("line_header", "", j, Null),
                           Out("json", print_json(rs[j], truncate), 0, rs[j]),
                           Out("blank", "", 0, Null)>>, TRUE)
  ELSE ByTypeFrom(rs, j + 1, type_filter, truncate, out, found)

show_by_type(recs, type_filter, truncate) ==
  IF NotIterable(recs) THEN Fault(<<>>, <<>>)
  ELSE ByTypeFrom(Iter(recs), 1, type_filter, truncate, <<>>, FALSE)

\* s.split(sep) for a one-character sep, cur the part being read
RECURSIVE SplitFrom(_, _, _, _)
SplitFrom(s, sep, j, cur) ==
  IF j > Len(s) THEN <<cur>>
  ELSE IF Ch(s, j) = sep THEN <<cur>> \o SplitFrom(s, sep, j + 1, "")
  ELSE SplitFrom(s, sep, j + 1, cur \o Ch(s, j))

split(s, sep) == SplitFrom(s, sep, 1, "")

\* Walk that keeps the value it has when it meets one that is not a dict
RECURSIVE WalkKeepingValue(_, _, _)
WalkKeepingValue(val, parts, j) ==
  IF j > Len(parts) THEN val
  ELSE IF IsDict(val) THEN WalkKeepingValue(Get(val, parts[j], Null), parts, j + 1)
  ELSE val

\* the walk of one key's parts from val; None is Null
RECURSIVE Walk(_, _, _)
Walk(val, parts, j) ==
  IF j > Len(parts) THEN val
  ELSE IF IsDict(val) THEN Walk(Get(val, parts[j], Null), parts, j + 1)
  ELSE Null

\* the dict `extracted` of one record, from the j-th key on
RECURSIVE ExtractedFrom(_, _, _, _)
ExtractedFrom(r, keys, j, extracted) ==
  IF j > Len(keys) THEN extracted
  ELSE LET val == Walk(r, split(keys[j], "."), 1) IN
    ExtractedFrom(r, keys, j + 1,
                  IF val # Null THEN ObjPut(extracted, keys[j], val) ELSE extracted)

RECURSIVE KeysFrom(_, _, _, _)
KeysFrom(rs, j, keys, out) ==
  IF j > Len(rs) THEN Done(out, <<>>)
  ELSE LET extracted == ExtractedFrom(rs[j], keys, 1, <<>>) IN
    KeysFrom(rs, j + 1, keys,
             IF extracted # <<>>
             THEN Append(out, Out("keys", dumps(Obj(extracted), FALSE, 0), j, Obj(extracted)))
             ELSE out)

show_keys(recs, keys) ==
  IF NotIterable(recs) THEN Fault(<<>>, <<>>)
  ELSE KeysFrom(Iter(recs), 1, keys, <<>>)

\* main: keys = [k.strip() for k in args.keys.split(',')]
parse_keys(text) == LET ks == split(text, ",") IN [j \in 1..Len(ks) |-> strip(ks[j])]

\* a list or a dict cannot be a dict key
Unhashable(v) == v.t \in {"arr", "obj"}

\* k1 == k2 as dict keys: True is 1 and False is 0
KeyEq(k1, k2) ==
  LET norm(v) == IF v.t = "bool" THEN Num(IF v.a = "true" THEN "1" ELSE "0") ELSE v IN
  norm(k1) = norm(k2)

\* types[t] = types.get(t, 0) + 1 on the histogram h, a sequence of [key, n]
Count(h, key) ==
  IF \E j \in 1..Len(h) : KeyEq(h[j].key, key)
  THEN [j \in 1..Len(h) |-> IF KeyEq(h[j].key, key) THEN [h[j] EXCEPT !.n = @ + 1] ELSE h[j]]
  ELSE Append(h, [key |-> key, n |-> 1])

\* sorted(h, key=lambda x: -x[1]): stable, the largest count first
RECURSIVE SortedByCount(_)
SortedByCount(h) ==
  IF h = <<>> THEN <<>>
  ELSE LET m == CHOOSE j \in 1..Len(h) :
                  /\ \A q \in 1..Len(h) : h[q].n <= h[j].n
                  /\ \A q \in 1..(j - 1) : h[q].n < h[j].n
           rest == [q \in 1..(Len(h) - 1) |-> IF q < m THEN h[q] ELSE h[q + 1]] IN
    <<h[m]>> \o SortedByCount(rest)

RECURSIVE SummaryTypes(_, _, _)
SummaryTypes(rs, j, h) ==
  IF j > Len(rs) THEN [fault |-> FALSE, h |-> h]
  ELSE IF ~IsDict(rs[j]) \/ Unhashable(Get(rs[j], "type", Str("unknown")))
  THEN [fault |-> TRUE, h |-> h]
  ELSE SummaryTypes(rs, j + 1, Count(h, Get(rs[j], "type", Str("unknown"))))

IsInit(r) == EqStr(Get(r, "type", Null), "system") /\ EqStr(Get(r, "subtype", Null), "init")

show_summary(recs) ==
  IF NoLen(recs) THEN Fault(<<Out("file", "", 0, Null)>>, <<>>)
  ELSE LET head == <<Out("file", "", 0, Null), Out("total", "", PyLen(recs), Null),
                     Out("blank", "", 0, Null)>>
           rs == Iter(recs)
           t == SummaryTypes(rs, 1, <<>>)
           h == SortedByCount(t.h)
           body == head \o <<Out("types_header", "", 0, Null)>>
                   \o [j \in 1..Len(h) |-> Out("type_count", "", h[j].n, h[j].key)] IN
    IF t.fault THEN Fault(head, <<>>)
    ELSE IF \E j \in 1..Len(rs) : IsInit(rs[j])
    THEN Done(body \o <<Out("blank", "", 0, Null), Out("analyze_hint", "", 0, Null)>>, <<>>)
    ELSE Done(body, <<>>)

(***************************************************************************)
(* analyze_claude_code.  The report's wording is not modelled: each        *)
(* section is one printed item carrying the values it shows.               *)
(***************************************************************************)
TypeIs(r, text) == EqStr(Get(r, "type", Null), text)

\* x / 1000 and format(x, '.4f') need a number (a bool is one)
NotNumber(v) == v.t \notin {"num", "bool"}

\* x[:n] raises TypeError for these
NoSlice(v) == v.t \in {"null", "bool", "num", "obj"}

\* x[:n]
Slice(v, n) ==
  IF v.t = "str" THEN Str(SubSeq(v.a, 1, IF Len(v.a) < n THEN Len(v.a) ELSE n))
  ELSE [v EXCEPT !.e = SubSeq(v.e, 1, IF Len(v.e) < n THEN Len(v.e) ELSE n)]

\* 1. the first init record
RECURSIVE SessionFrom(_, _)
SessionFrom(rs, j) ==
  IF j > Len(rs) THEN Done(<<>>, <<>>)
  ELSE IF ~IsDict(rs[j]) THEN Fault(<<>>, <<>>)
  ELSE IF IsInit(rs[j])
  THEN IF NoLen(Get(rs[j], "tools", Arr(<<>>))) THEN Fault(<<>>, <<>>)
       ELSE Done(<<Out("session", "", PyLen(Get(rs[j], "tools", Arr(<<>>))), rs[j])>>, <<>>)
  ELSE SessionFrom(rs, j + 1)

\* 2. the first result record
RECURSIVE ResultFrom(_, _)
ResultFrom(rs, j) ==
  IF j > Len(rs) THEN Done(<<>>, <<>>)
  ELSE IF ~IsDict(rs[j]) THEN Fault(<<>>, <<>>)
  ELSE IF TypeIs(rs[j], "result")
  THEN IF \/ NotNumber(Get(rs[j], "duration_ms", Num("0")))
          \/ NotNumber(Get(rs[j], "total_cost_usd", Num("0")))
          \/ ~IsDict(Get(rs[j], "usage", Obj(<<>>)))
       THEN Fault(<<>>, <<>>)
       ELSE Done(<<Out("result", "", 0, rs[j]),
                   Out("usage", "", 0, Get(rs[j], "usage", Obj(<<>>)))>>, <<>>)
  ELSE ResultFrom(rs, j + 1)

\* msg.get('content', []) of a record, when the loop over it can start
ContentFault(r) ==
  \/ ~IsDict(Get(r, "message", Obj(<<>>)))
  \/ NotIterable(Get(Get(r, "message", Obj(<<>>)), "content", Arr(<<>>)))

Content(r) == Iter(Get(Get(r, "message", Obj(<<>>)), "content", Arr(<<>>)))

\* 3. the tool histogram and the errors of one record's content entries
RECURSIVE UsesFrom(_, _, _, _, _)
UsesFrom(cs, j, kind, pos, acc) ==
  IF j > Len(cs) THEN acc
  ELSE IF ~IsDict(cs[j]) THEN [acc EXCEPT !.fault = TRUE]
  ELSE IF kind = "assistant" /\ TypeIs(cs[j], "tool_use")
  THEN IF Unhashable(Get(cs[j], "name", Null)) THEN [acc EXCEPT !.fault = TRUE]
       ELSE UsesFrom(cs, j + 1, kind, pos,
                     [acc EXCEPT !.uses = Count(@, Get(cs[j], "name", Null))])
  ELSE IF kind = "user" /\ Truthy(Get(cs[j], "is_error", Null))
  THEN IF NoSlice(Get(cs[j], "content", Str(""))) THEN [acc EXCEPT !.fault = TRUE]
       ELSE UsesFrom(cs, j + 1, kind, pos,
                     [acc EXCEPT !.errors =
                        Append(@, Out("error", "", pos, Slice(Get(cs[j], "content", Str("")), 80)))])
  ELSE UsesFrom(cs, j + 1, kind, pos, acc)

RECURSIVE ToolsFrom(_, _, _)
ToolsFrom(rs, j, acc) ==
  IF j > Len(rs) \/ acc.fault THEN acc
  ELSE IF ~IsDict(rs[j]) THEN [acc EXCEPT !.fault = TRUE]
  ELSE IF TypeIs(rs[j], "assistant") \/ TypeIs(rs[j], "user")
  THEN IF ContentFault(rs[j]) THEN [acc EXCEPT !.fault = TRUE]
       ELSE ToolsFrom(rs, j + 1,
                      UsesFrom(Content(rs[j]), 1, Get(rs[j], "type", Null).a, j, acc))
  ELSE ToolsFrom(rs, j + 1, acc)

\* 4. the first text entry of one assistant record
RECURSIVE FirstText(_, _, _)
FirstText(cs, j, pos) ==
  IF j > Len(cs) THEN Done(<<>>, <<>>)
  ELSE IF ~IsDict(cs[j]) THEN Fault(<<>>, <<>>)
  ELSE IF TypeIs(cs[j], "text")
  THEN IF NoSlice(Get(cs[j], "text", Str(""))) THEN Fault(<<>>, <<>>)
       ELSE Done(<<Out("thought", "", pos, Slice(Get(cs[j], "text", Str("")), 60))>>, <<>>)
  ELSE FirstText(cs, j + 1, pos)

RECURSIVE ThoughtsFrom(_, _, _)
ThoughtsFrom(rs, j, out) ==
  IF j > Len(rs) THEN Done(out, <<>>)
  ELSE IF ~IsDict(rs[j]) THEN Fault(out, <<>>)
  ELSE IF TypeIs(rs[j], "assistant")
  THEN IF ContentFault(rs[j]) THEN Fault(out, <<>>)
       ELSE LET t == FirstText(Content(rs[j]), 1, j) IN
         IF t.fault THEN Fault(out, <<>>) ELSE ThoughtsFrom(rs, j + 1, out \o t.out)
  ELSE ThoughtsFrom(rs, j + 1, out)

analyze_claude_code(recs) ==
  LET head == <<Out("analysis_header", "", 0, Null)>> IN
  IF NotIterable(recs) THEN Fault(head, <<>>)
  ELSE LET rs == Iter(recs)
           s1 == SessionFrom(rs, 1)
           s2 == ResultFrom(rs, 1)
           s3 == ToolsFrom(rs, 1, [fault |-> FALSE, uses |-> <<>>, errors |-> <<>>])
           uses == SortedByCount(s3.uses)
           tools == <<Out("tools_header", "", 0, Null)>>
                    \o [j \in 1..Len(uses) |-> Out("tool_count", "", uses[j].n, uses[j].key)]
                    \o s3.errors
           s4 == ThoughtsFrom(rs, 1, <<Out("thoughts_header", "", 0, Null)>>) IN
    IF s1.fault THEN Fault(head, <<>>)
    ELSE IF s2.fault THEN Fault(head \o s1.out, <<>>)
    ELSE IF s3.fault THEN Fault(head \o s1.out \o s2.out, <<>>)
    ELSE IF s4.fault THEN Fault(head \o s1.out \o s2.out \o tools \o s4.out, <<>>)
    ELSE Done(head \o s1.out \o s2.out \o tools \o s4.out, <<>>)

(***************************************************************************)
(* extract_agent_code                                                      *)
(***************************************************************************)
\* repr(v) of a decoded value (strings without quote characters)
RECURSIVE PyRepr(_)
PyRepr(v) ==
  CASE v.t = "str" -> "'" \o Escape(v.a) \o "'"
    [] v.t = "num" -> v.a
    [] v.t = "null" -> "None"
    [] v.t = "bool" -> IF v.a = "true" THEN "True" ELSE "False"
    [] v.t = "arr" -> "[" \o Join([j \in 1..Len(v.e) |-> PyRepr(v.e[j].v)], ", ") \o "]"
    [] v.t = "obj" ->
         "{" \o Join([j \in 1..Len(v.e) |->
                        "'" \o Escape(v.e[j].k) \o "': " \o PyRepr(v.e[j].v)], ", ") \o "}"

\* str(v), as an f-string renders {v}
PyStr(v) == IF v.t = "str" THEN v.a ELSE PyRepr(v)

\* one element of code_changes: (step_id, tool_name, file_path, action, content)
Change(line_no, tool, file_path, action, content) ==
  [line_no |-> line_no, tool |-> tool, file_path |-> file_path,
   action |-> action, content |-> content]

\* the content of an Edit change
EditBlock(src) ==
  Str("--- OLD ---\n" \o PyStr(Get(src, "old_string", Str("")))
      \o "\n\n+++ NEW +++\n" \o PyStr(Get(src, "new_string", Str(""))))

WriteChange(line_no, src) ==
  Change(line_no, "Write", Get(src, "file_path", Str("unknown")), "create",
         Get(src, "content", Str("")))

EditChange(line_no, src) ==
  Change(line_no, "Edit", Get(src, "file_path", Str("unknown")), "modify", EditBlock(src))

\* the scan's accumulator: the list so far, and for each element the record,
\* rule and entry that produced it
Raise(acc) == [acc EXCEPT !.fault = TRUE]

\* AppendChange putting the change at the front of the list
PrependChange(acc, change, org) ==
  [acc EXCEPT !.changes = <<change>> \o @, !.origin = <<org>> \o @]

\* code_changes.append(change)
AppendChange(acc, change, org) ==
  [acc EXCEPT !.changes = Append(@, change), !.origin = Append(@, org)]

\* rule 1: the tool_use entries of message.content, from the j-th on
RECURSIVE ToolUsesFrom(_, _, _, _)
ToolUsesFrom(cs, j, pos, acc) ==
  IF j > Len(cs) THEN acc
  ELSE IF ~IsDict(cs[j]) THEN Raise(acc)
  ELSE IF ~TypeIs(cs[j], "tool_use") THEN ToolUsesFrom(cs, j + 1, pos, acc)
  ELSE LET tool_name == Get(cs[j], "name", Str(""))
           tool_input == Get(cs[j], "input", Obj(<<>>))
           org == [rec |-> pos, rule |-> 1, entry |-> j] IN
    IF EqStr(tool_name, "Write")
    THEN IF ~IsDict(tool_input) THEN Raise(acc)
         ELSE ToolUsesFrom(cs, j + 1, pos,
                           AppendChange(acc, WriteChange(PyInt(pos), tool_input), org))
    ELSE IF EqStr(tool_name, "Edit")
    THEN IF ~IsDict(tool_input) THEN Raise(acc)
         ELSE ToolUsesFrom(cs, j + 1, pos,
                           AppendChange(acc, EditChange(PyInt(pos), tool_input), org))
    ELSE ToolUsesFrom(cs, j + 1, pos, acc)

\* rules 2 and 3: the entries of tool_calls, from the j-th on; rule 3 records
\* step_id and handles Edit as well
RECURSIVE ToolCallsFrom(_, _, _, _, _, _)
ToolCallsFrom(tcs, j, pos, line_no, rule, acc) ==
  IF j > Len(tcs) THEN acc
  ELSE IF ~IsDict(tcs[j]) THEN Raise(acc)
  ELSE LET func_name == Get(tcs[j], "function_name", Str(""))
           arguments == Get(tcs[j], "arguments", Obj(<<>>))
           org == [rec |-> pos, rule |-> rule, entry |-> j] IN
    IF EqStr(func_name, "Write")
    THEN IF ~IsDict(arguments) THEN Raise(acc)
         ELSE ToolCallsFrom(tcs, j + 1, pos, line_no, rule,
                            AppendChange(acc, WriteChange(line_no, arguments), org))
    ELSE IF rule = 3 /\ EqStr(func_name, "Edit")
    THEN IF ~IsDict(arguments) THEN Raise(acc)
         ELSE ToolCallsFrom(tcs, j + 1, pos, line_no, rule,
                            AppendChange(acc, EditChange(line_no, arguments), org))
    ELSE ToolCallsFrom(tcs, j + 1, pos, line_no, rule, acc)

\* if r.get('type') == 'assistant': ...
Rule1(r, pos, acc) ==
  IF ~TypeIs(r, "assistant") THEN acc
  ELSE IF ContentFault(r) THEN Raise(acc)
  ELSE ToolUsesFrom(Content(r), 1, pos, acc)

\* tool_calls = r.get('tool_calls', []) ...
Rule2(r, pos, acc) ==
  IF acc.fault THEN acc
  ELSE IF NotIterable(Get(r, "tool_calls", Arr(<<>>))) THEN Raise(acc)
  ELSE ToolCallsFrom(Iter(Get(r, "tool_calls", Arr(<<>>))), 1, pos, PyInt(pos), 2, acc)

\* Rule3Applies without the test of the format
Rule3Always(fmt) == TRUE

\* if format_type == 'trajectory': ...
Rule3Applies(fmt) == fmt = "trajectory"

Rule3(r, pos, fmt, acc) ==
  IF acc.fault \/ ~Rule3Applies(fmt) THEN acc
  ELSE IF NotIterable(Get(r, "tool_calls", Arr(<<>>))) THEN Raise(acc)
  ELSE ToolCallsFrom(Iter(Get(r, "tool_calls", Arr(<<>>))), 1, pos,
                     Get(r, "step_id", PyInt(pos)), 3, acc)

\* one iteration of the scan: record r at 1-based position pos
scan_record(r, pos, fmt, acc) ==
  IF ~IsDict(r) THEN Raise(acc)
  ELSE Rule3(r, pos, fmt, Rule2(r, pos, Rule1(r, pos, acc)))

\* file_stats, a sequence of [key, Write, Edit] in insertion order
RECURSIVE FileStatsFrom(_, _, _)
FileStatsFrom(cc, j, st) ==
  IF j > Len(cc) THEN [fault |-> FALSE, st |-> st]
  ELSE IF Unhashable(cc[j].file_path) THEN [fault |-> TRUE, st |-> st]
  ELSE LET fp == cc[j].file_path
           st1 == IF \E q \in 1..Len(st) : KeyEq(st[q].key, fp) THEN st
                  ELSE Append(st, [key |-> fp, Write |-> 0, Edit |-> 0])
           st2 == [q \in 1..Len(st1) |->
                     IF ~KeyEq(st1[q].key, fp) THEN st1[q]
                     ELSE IF cc[j].tool = "Write" THEN [st1[q] EXCEPT !.Write = @ + 1]
                     ELSE [st1[q] EXCEPT !.Edit = @ + 1]] IN
    FileStatsFrom(cc, j + 1, st2)

TruncLimit == 3000

\* RenderChange cutting from the limit on, not past it
RenderChange_cut_at_limit(idx, total, c) ==
  LET head == <<Out("detail_header",
                    "[" \o ToString(idx) \o "/" \o ToString(total) \o "] " \o PyStr(c.line_no)
                    \o ": " \o c.tool \o " -> " \o PyStr(c.file_path), idx, Null)>> IN
  IF NoLen(c.content) THEN Fault(head, <<>>)
  ELSE IF PyLen(c.content) >= TruncLimit
  THEN IF NoSlice(c.content) THEN Fault(head, <<>>)
       ELSE Done(head \o <<Out("content", PyStr(Slice(c.content, TruncLimit)), 0, Null),
                           Out("cut_notice", "", PyLen(c.content), Null)>>, <<>>)
  ELSE Done(head \o <<Out("content", PyStr(c.content), 0, Null)>>, <<>>)

\* the detail of one change: its header line, then its content, cut when long
RenderChange(idx, total, c) ==
  LET head == <<Out("detail_header",
                    "[" \o ToString(idx) \o "/" \o ToString(total) \o "] " \o PyStr(c.line_no)
                    \o ": " \o c.tool \o " -> " \o PyStr(c.file_path), idx, Null)>> IN
  IF NoLen(c.content) THEN Fault(head, <<>>)
  ELSE IF PyLen(c.content) > TruncLimit
  THEN IF NoSlice(c.content) THEN Fault(head, <<>>)
       ELSE Done(head \o <<Out("content", PyStr(Slice(c.content, TruncLimit)), 0, Null),
                           Out("cut_notice", "", PyLen(c.content), Null)>>, <<>>)
  ELSE Done(head \o <<Out("content", PyStr(c.content), 0, Null)>>, <<>>)

RECURSIVE RenderFrom(_, _, _)
RenderFrom(cc, idx, out) ==
  IF idx > Len(cc) THEN Done(out, <<>>)
  ELSE LET r == RenderChange(idx, Len(cc), cc[idx]) IN
    IF r.fault THEN Fault(out \o r.out, <<>>) ELSE RenderFrom(cc, idx + 1, out \o r.out)

\* extract_agent_code after the scan, up to the details
report_changes(cc) ==
  IF cc = <<>> THEN Done(<<Out("no_changes", "", 0, Null)>>, <<>>)
  ELSE LET st == FileStatsFrom(cc, 1, <<>>)
           list == <<Out("found", "", Len(cc), Null)>>
                   \o [q \in 1..Len(st.st) |->
                         Out("file_stat", ToString(st.st[q].Write) \o "/" \o ToString(st.st[q].Edit),
                             0, st.st[q].key)] IN
    IF st.fault THEN Fault(<<Out("found", "", Len(cc), Null)>>, <<>>)
    ELSE RenderFrom(cc, 1, list \o <<Out("details_header", "", 0, Null)>>)

\* s.replace(old, new) for one-character old
RECURSIVE replace(_, _, _)
replace(s, old, new) ==
  IF s = "" THEN ""
  ELSE (IF Ch(s, 1) = old THEN new ELSE Ch(s, 1)) \o replace(SubSeq(s, 2, Len(s)), old, new)

RECURSIVE lstrip(_, _)
lstrip(s, c) == IF s # "" /\ Ch(s, 1) = c THEN lstrip(SubSeq(s, 2, Len(s)), c) ELSE s

\* f"{idx:03d}"
Pad3(idx) ==
  LET d == ToString(idx) IN
  IF Len(d) >= 3 THEN d ELSE IF Len(d) = 2 THEN "0" \o d ELSE "00" \o d

\* safe_name without the index
safe_name_without_index(idx, tool, file_path) ==
  LET name == lstrip(replace(replace(file_path, "/", "_"), "\\", "_"), "_") IN
  IF tool = "Edit" THEN "edit_" \o name \o ".diff" ELSE "write_" \o name

\* the name of the file that holds the idx-th change
safe_name(idx, tool, file_path) ==
  LET name == lstrip(replace(replace(file_path, "/", "_"), "\\", "_"), "_") IN
  IF tool = "Edit" THEN Pad3(idx) \o "_edit_" \o name \o ".diff"
  ELSE Pad3(idx) \o "_write_" \o name

\* one iteration of the save loop: [fault, name, text] of the file written
save_change(idx, c) ==
  IF c.file_path.t # "str" THEN [fault |-> TRUE, wrote |-> FALSE, name |-> "", text |-> ""]
  ELSE LET name == safe_name(idx, c.tool, c.file_path.a)
           head == "# Source: line " \o PyStr(c.line_no) \o ", tool: " \o c.tool \o "\n"
                   \o "# Target: " \o c.file_path.a \o "\n\n" IN
    IF c.content.t # "str" THEN [fault |-> TRUE, wrote |-> TRUE, name |-> name, text |-> head]
    ELSE [fault |-> FALSE, wrote |-> TRUE, name |-> name, text |-> head \o c.content.a]

(***************************************************************************)
(* smart_load and load_jsonl                                               *)
(***************************************************************************)
StartsWith(s, c) == Len(s) >= 1 /\ Ch(s, 1) = c

\* the whole-document attempt of smart_load: [hit, steps]; any exception in
\* it is swallowed
detect_trajectory(text) ==
  LET content == strip(text)
      data == loads(content) IN
  IF StartsWith(content, "{") /\ data.ok /\ IsDict(data.v) /\ HasKey(data.v, "steps")
  THEN [hit |-> TRUE, steps |-> Get(data.v, "steps", Arr(<<>>))]
  ELSE [hit |-> FALSE, steps |-> Null]

\* load_line with the warning numbered by the record it would have been
load_line_numbered_by_record(recs, err, idx, raw) ==
  LET line == strip(raw)
      r == loads(line) IN
  IF line = "" THEN [records |-> recs, stderr |-> err]
  ELSE IF r.ok THEN [records |-> Arr(Append(Elems(recs), r.v)), stderr |-> err]
  ELSE [records |-> recs,
        stderr |-> Append(err, Out("decode_warning", "", Len(Elems(recs)) + 1, Null))]

\* one iteration of load_jsonl's loop: the i-th line of the file
load_line(recs, err, idx, raw) ==
  LET line == strip(raw)
      r == loads(line) IN
  IF line = "" THEN [records |-> recs, stderr |-> err]
  ELSE IF r.ok THEN [records |-> Arr(Append(Elems(recs), r.v)), stderr |-> err]
  ELSE [records |-> recs, stderr |-> Append(err, Out("decode_warning", "", idx, Null))]

(***************************************************************************)
(* main                                                                    *)
(***************************************************************************)
\* selected with the type filter tested before the line
selected_type_first(a) ==
  IF OptTruthy(a.type_filter) THEN "show_by_type"
  ELSE IF OptTruthy(a.line) THEN "show_line"
  ELSE IF OptTruthy(a.keys) THEN "show_keys"
  ELSE IF a.analyze THEN "analyze_claude_code"
  ELSE IF a.code THEN "extract_agent_code"
  ELSE "show_summary"

\* the if/elif chain of main: the operation it calls
selected(a) ==
  IF OptTruthy(a.line) THEN "show_line"
  ELSE IF OptTruthy(a.type_filter) THEN "show_by_type"
  ELSE IF OptTruthy(a.keys) THEN "show_keys"
  ELSE IF a.analyze THEN "analyze_claude_code"
  ELSE IF a.code THEN "extract_agent_code"
  ELSE "show_summary"

\* the process after a call that ran to its end, exited or raised
Finish(o) ==
  /\ stdout' = stdout \o o.out
  /\ stderr' = stderr \o o.err
  /\ exit_code' = IF o.fault THEN "fault" ELSE IF o.exit THEN "1" ELSE "0"
  /\ pc' = "exit"

main_check_file ==
  /\ pc = "main"
  /\ IF file.exists
     THEN pc' = "smart_load" /\ UNCHANGED <<stderr, exit_code>>
     ELSE /\ stderr' = Append(stderr, Out("file_missing", "", 0, Null))
          /\ exit_code' = "1"
          /\ pc' = "exit"
  /\ UNCHANGED <<file, args, lines, i, records, format_type, stdout, ran,
                 code_changes, origin, saved>>

smart_load ==
  /\ pc = "smart_load"
  /\ ran' = Append(ran, "smart_load")
  /\ LET d == detect_trajectory(file.content) IN
     IF d.hit
     THEN records' = d.steps /\ format_type' = "trajectory" /\ pc' = "loaded"
     ELSE pc' = "load_jsonl" /\ UNCHANGED <<records, format_type>>
  /\ UNCHANGED <<file, args, lines, i, stdout, stderr, exit_code, code_changes,
                 origin, saved>>

load_jsonl_open ==
  /\ pc = "load_jsonl"
  /\ records' = Arr(<<>>)
  /\ lines' = readlines(file.content)
  /\ i' = 1
  /\ pc' = "load_jsonl_loop"
  /\ UNCHANGED <<file, args, format_type, stdout, stderr, exit_code, ran,
                 code_changes, origin, saved>>

load_jsonl_line ==
  /\ pc = "load_jsonl_loop"
  /\ i <= Len(lines)
  /\ LET r == load_line(records, stderr, i, lines[i]) IN
       records' = r.records /\ stderr' = r.stderr
  /\ i' = i + 1
  /\ UNCHANGED <<file, args, pc, lines, format_type, stdout, exit_code, ran,
                 code_changes, origin, saved>>

load_jsonl_return ==
  /\ pc = "load_jsonl_loop"
  /\ i > Len(lines)
  /\ format_type' = "jsonl"
  /\ pc' = "loaded"
  /\ UNCHANGED <<file, args, lines, i, records, stdout, stderr, exit_code, ran,
                 code_changes, origin, saved>>

main_check_records ==
  /\ pc = "loaded"
  /\ IF Truthy(records)
     THEN pc' = "dispatch" /\ UNCHANGED <<stderr, exit_code>>
     ELSE /\ stderr' = Append(stderr, Out("no_records", "", 0, Null))
          /\ exit_code' = "1"
          /\ pc' = "exit"
  /\ UNCHANGED <<file, args, lines, i, records, format_type, stdout, ran,
                 code_changes, origin, saved>>

Call(name) ==
  /\ pc = "dispatch"
  /\ selected(args) = name
  /\ ran' = Append(ran, name)

do_show_line ==
  /\ Call("show_line")
  /\ Finish(show_line(records, args.line.n, args.truncate))
  /\ UNCHANGED <<file, args, lines, i, records, format_type, code_changes, origin, saved>>

do_show_by_type ==
  /\ Call("show_by_type")
  /\ Finish(show_by_type(records, args.type_filter.s, args.truncate))
  /\ UNCHANGED <<file, args, lines, i, records, format_type, code_changes, origin, saved>>

do_show_keys ==
  /\ Call("show_keys")
  /\ Finish(show_keys(records, parse_keys(args.keys.s)))
  /\ UNCHANGED <<file, args, lines, i, records, format_type, code_changes, origin, saved>>

do_analyze ==
  /\ Call("analyze_claude_code")
  /\ Finish(analyze_claude_code(records))
  /\ UNCHANGED <<file, args, lines, i, records, format_type, code_changes, origin, saved>>

do_show_summary ==
  /\ Call("show_summary")
  /\ Finish(show_summary(records))
  /\ UNCHANGED <<file, args, lines, i, records, format_type, code_changes, origin, saved>>

\* extract_agent_code up to the first iteration of the scan
extract_begin ==
  /\ Call("extract_agent_code")
  /\ code_changes' = <<>>
  /\ origin' = <<>>
  /\ i' = 1
  /\ IF NotIterable(records)
     THEN Finish(Fault(<<Out("extract_header", "", 0, Null)>>, <<>>))
     ELSE /\ stdout' = Append(stdout, Out("extract_header", "", 0, Null))
          /\ pc' = "scan"
          /\ UNCHANGED <<stderr, exit_code>>
  /\ UNCHANGED <<file, args, lines, records, format_type, saved>>

extract_scan ==
  /\ pc = "scan"
  /\ i <= Len(Iter(records))
  /\ LET acc == scan_record(Iter(records)[i], i, format_type,
                            [fault |-> FALSE, changes |-> code_changes, origin |-> origin]) IN
       /\ code_changes' = acc.changes
       /\ origin' = acc.origin
       /\ IF acc.fault
          THEN exit_code' = "fault" /\ pc' = "exit" /\ i' = i
          ELSE i' = i + 1 /\ UNCHANGED <<exit_code, pc>>
  /\ UNCHANGED <<file, args, lines, records, format_type, stdout, stderr, ran, saved>>

\* after the scan: the statistics and the details, then the save loop if asked
extract_report ==
  /\ pc = "scan"
  /\ i > Len(Iter(records))
  /\ LET o == report_changes(code_changes) IN
     IF o.fault \/ code_changes = <<>> \/ ~OptTruthy(args.output)
     THEN Finish(o) /\ i' = i
     ELSE /\ stdout' = stdout \o o.out \o <<Out("saving", args.output.s, 0, Null)>>
          /\ i' = 1
          /\ pc' = "save"
          /\ UNCHANGED <<stderr, exit_code>>
  /\ UNCHANGED <<file, args, lines, records, format_type, ran, code_changes, origin, saved>>

extract_save ==
  /\ pc = "save"
  /\ i <= Len(code_changes)
  /\ LET w == save_change(i, code_changes[i]) IN
       /\ saved' = IF w.wrote THEN Append(saved, [name |-> w.name, text |-> w.text]) ELSE saved
       /\ IF w.fault
          THEN exit_code' = "fault" /\ pc' = "exit" /\ i' = i /\ stdout' = stdout
          ELSE /\ stdout' = Append(stdout, Out("saved", w.name, 0, Null))
               /\ i' = i + 1
               /\ UNCHANGED <<exit_code, pc>>
  /\ UNCHANGED <<file, args, lines, records, format_type, stderr, ran, code_changes, origin>>

extract_return ==
  /\ pc = "save"
  /\ i > Len(code_changes)
  /\ exit_code' = "0"
  /\ pc' = "exit"
  /\ UNCHANGED <<file, args, lines, i, records, format_type, stdout, stderr, ran,
                 code_changes, origin, saved>>

(***************************************************************************)
(* Specifications.  Each starts from a file on disk and a command line.    *)
(***************************************************************************)
Start ==
  /\ pc = "main"
  /\ lines = <<>>
  /\ i = 0
  /\ records = Arr(<<>>)
  /\ format_type = ""
  /\ stdout = <<>>
  /\ stderr = <<>>
  /\ exit_code = ""
  /\ ran = <<>>
  /\ code_changes = <<>>
  /\ origin = <<>>
  /\ saved = <<>>

\* the texts of n lines drawn from `texts`, each ended by a line feed
RECURSIVE TextsOf(_, _)
TextsOf(texts, n) ==
  IF n = 0 THEN {""} ELSE {l \o "\n" \o rest : l \in texts, rest \in TextsOf(texts, n - 1)}

UpTo(texts, max) == UNION {TextsOf(texts, n) : n \in 0..max}

\* the same texts, and each without its last line feed
WithOpenEnd(contents) ==
  contents \cup {SubSeq(c, 1, Len(c) - 1) : c \in contents \ {""}}

\* the n-th smallest element of a set of numbers
Nth(S, n) == CHOOSE x \in S : Cardinality({y \in S : y <= x}) = n

OnDisk(contents) == {[exists |-> TRUE, content |-> c] : c \in contents}

Missing == [exists |-> FALSE, content |-> ""]

NoArgs ==
  [line |-> NoOpt, type_filter |-> NoOpt, keys |-> NoOpt, analyze |-> FALSE,
   code |-> FALSE, output |-> NoOpt, truncate |-> NoOpt]

\* three records, a blank line and a line that is not JSON
FileJsonl ==
  "{\"type\":\"system\",\"subtype\":\"init\",\"tools\":[]}\n\nnot json\n{\"type\":\"assistant\",\"message\":{\"content\":[{\"type\":\"text\",\"text\":\"hi\"}]}}\n  {\"a\":{\"b\":1}}\n"

\* a line that decodes to a number
FileNumber ==
  "7\n"

\* a bare JSON array
FileBareArray ==
  "[{\"type\":\"a\"},{\"type\":\"b\"}]"

\* a trajectory document
FileTrajectory ==
  "{\"steps\":[{\"step_id\":4,\"tool_calls\":[{\"function_name\":\"Write\",\"arguments\":{\"file_path\":\"a.py\",\"content\":\"x\"}}]},{\"type\":\"user\"}]}"

\* a trajectory document over several lines
FilePretty ==
  "{\n \"steps\": [\n  {\n   \"type\": \"result\",\n   \"duration_ms\": 1500\n  }\n ]\n}\n"

\* steps that is not an array
FileStepsNumber ==
  "{\"steps\":5}"

FileStepsObject ==
  "{\"steps\":{\"a\":1}}"

FileStepsEmpty ==
  "{\"steps\":[]}"

\* an object without steps, over several lines
FileNoSteps ==
  "{\n \"type\": \"user\"\n}\n"

\* a tool entry whose file_path and content are numbers
FileBadTool ==
  "{\"type\":\"assistant\",\"message\":{\"content\":[{\"type\":\"tool_use\",\"name\":\"Write\",\"input\":{\"file_path\":5,\"content\":7}}]}}\n"

FileEmpty ==
  ""

MainFiles ==
  {FileJsonl, FileNumber, FileBareArray, FileTrajectory, FilePretty, FileStepsNumber,
   FileStepsObject, FileStepsEmpty, FileNoSteps, FileBadTool, FileEmpty}

\* the largest line number asked for
MaxLine == 4

MainArgs ==
  [line : {NoOpt} \cup {IntOpt(n) : n \in -1..MaxLine},
   type_filter : {NoOpt, StrOpt(""), StrOpt("assistant")},
   keys : {NoOpt, StrOpt("type, a.b")},
   analyze : BOOLEAN,
   code : BOOLEAN,
   output : {NoOpt, StrOpt("out")},
   truncate : {NoOpt, IntOpt(5)}]

Init ==
  /\ file \in OnDisk(MainFiles) \cup {Missing}
  /\ args \in MainArgs
  /\ Start

Next ==
  \/ main_check_file
  \/ smart_load
  \/ load_jsonl_open
  \/ load_jsonl_line
  \/ load_jsonl_return
  \/ main_check_records
  \/ do_show_line
  \/ do_show_by_type
  \/ do_show_keys
  \/ do_analyze
  \/ do_show_summary
  \/ extract_begin
  \/ extract_scan
  \/ extract_report
  \/ extract_save
  \/ extract_return

Spec == Init /\ [][Next]_vars

(***************************************************************************)
(* The line-delimited loader on every file of a few short lines.           *)
(***************************************************************************)
MaxLines == 3

LoadLineTexts ==
  {"", "  \t", "7", " {\"a\": 1} ", "{\"a\":", "x y", "null"}

LoadFiles == WithOpenEnd(UpTo(LoadLineTexts, MaxLines))

InitLoad ==
  /\ file \in OnDisk(LoadFiles)
  /\ args = NoArgs
  /\ Start

NextLoad ==
  \/ main_check_file
  \/ smart_load
  \/ load_jsonl_open
  \/ load_jsonl_line
  \/ load_jsonl_return

SpecLoad == InitLoad /\ [][NextLoad]_vars

IsBlankLine(l) == \A j \in 1..Len(l) : IsWs(Ch(l, j))

\* the physical numbers of the file's lines that are not blank and decode
ValidLines(text) ==
  LET L == readlines(text) IN {n \in 1..Len(L) : ~IsBlankLine(L[n]) /\ loads(L[n]).ok}

\* the physical numbers of the file's lines that are not blank and do not decode
InvalidLines(text) ==
  LET L == readlines(text) IN {n \in 1..Len(L) : ~IsBlankLine(L[n]) /\ ~loads(L[n]).ok}

\* C4: when load_jsonl returns, the records are the decoded values of the
\* non-blank lines that are valid JSON, in file order, and stderr holds one
\* warning for each non-blank line that does not decode, with that line's
\* physical 1-based number; blank lines give neither.
C4_LoaderKeepsValidLines ==
  (pc = "loaded" /\ format_type = "jsonl") =>
    LET L == readlines(file.content)
        valid == ValidLines(file.content)
        invalid == InvalidLines(file.content) IN
    /\ Elems(records) = [n \in 1..Cardinality(valid) |-> loads(L[Nth(valid, n)]).v]
    /\ stderr = [n \in 1..Cardinality(invalid) |->
                   Out("decode_warning", "", Nth(invalid, n), Null)]

\* a blank line, then a line that does not decode, then one that does
C4_Witness ==
  /\ pc = "loaded"
  /\ format_type = "jsonl"
  /\ Len(lines) = 3
  /\ IsBlankLine(lines[1])
  /\ 2 \in InvalidLines(file.content)
  /\ 3 \in ValidLines(file.content)
  /\ Len(Elems(records)) = 1
  /\ Len(stderr) = 1

(***************************************************************************)
(* The extractor on every file of a few records, in both formats.          *)
(***************************************************************************)
MaxRecs == 2

\* an assistant record: a text entry, a Write and an Edit tool_use
RecAssistant ==
  "{\"type\":\"assistant\",\"message\":{\"content\":[{\"type\":\"text\",\"text\":\"t\"},{\"type\":\"tool_use\",\"name\":\"Write\",\"input\":{\"file_path\":\"a/b.py\",\"content\":\"w1\"}},{\"type\":\"tool_use\",\"name\":\"Edit\",\"input\":{\"file_path\":\"a_b.py\",\"old_string\":\"o\",\"new_string\":\"n\"}}]}}"

\* a step with its step_id: a Write and an Edit in tool_calls
RecStep ==
  "{\"step_id\":7,\"tool_calls\":[{\"function_name\":\"Write\",\"arguments\":{\"file_path\":\"/a/b.py\",\"content\":\"w2\"}},{\"function_name\":\"Edit\",\"arguments\":{\"file_path\":\"a\\\\b.py\",\"old_string\":\"p\",\"new_string\":\"q\"}}]}"

\* an assistant record that also carries tool_calls
RecBoth ==
  "{\"type\":\"assistant\",\"message\":{\"content\":[{\"type\":\"tool_use\",\"name\":\"Write\",\"input\":{\"file_path\":\"a\\\\b.py\",\"content\":\"w3\"}}]},\"tool_calls\":[{\"function_name\":\"Write\",\"arguments\":{\"file_path\":\"a_b.py\",\"content\":\"w4\"}}]}"

\* a record with no tool entry
RecUser ==
  "{\"type\":\"user\"}"

\* tool_calls without a step_id: a Read, an Edit and a Write
RecNoStepId ==
  "{\"tool_calls\":[{\"function_name\":\"Read\",\"arguments\":{}},{\"function_name\":\"Edit\",\"arguments\":{\"file_path\":\"_a_b.py\",\"old_string\":\"\",\"new_string\":\"r\"}},{\"function_name\":\"Write\",\"arguments\":{\"file_path\":\"a/b.py\",\"content\":\"w5\"}}]}"

ExtractRecTexts == {RecAssistant, RecStep, RecBoth, RecUser, RecNoStepId}

SeqsUpTo(S, max) == UNION {[1..n -> S] : n \in 0..max}

\* the records one per line
JsonlOf(recs) == Join([j \in 1..Len(recs) |-> recs[j] \o "\n"], "")

\* the records as the steps of one document
TrajectoryOf(recs) == "{\"steps\":[" \o Join(recs, ",") \o "]}"

ExtractFiles ==
  {JsonlOf(recs) : recs \in SeqsUpTo(ExtractRecTexts, MaxRecs)}
  \cup {TrajectoryOf(recs) : recs \in SeqsUpTo(ExtractRecTexts, MaxRecs)}

InitExtract ==
  /\ file \in OnDisk(ExtractFiles)
  /\ args \in {[NoArgs EXCEPT !.code = TRUE, !.output = o] : o \in {NoOpt, StrOpt("out")}}
  /\ Start

NextExtract ==
  \/ main_check_file
  \/ smart_load
  \/ load_jsonl_open
  \/ load_jsonl_line
  \/ load_jsonl_return
  \/ main_check_records
  \/ extract_begin
  \/ extract_scan
  \/ extract_report
  \/ extract_save
  \/ extract_return

SpecExtract == InitExtract /\ [][NextExtract]_vars

\* the scan is over and the report was printed without an exception
Reported == pc \in {"save", "exit"} /\ exit_code # "fault" /\ code_changes # <<>>

\* the arguments of the entry a change was found at
SourceOf(org) ==
  LET r == Iter(records)[org.rec] IN
  IF org.rule = 1 THEN Get(Content(r)[org.entry], "input", Obj(<<>>))
  ELSE Get(Iter(Get(r, "tool_calls", Arr(<<>>)))[org.entry], "arguments", Obj(<<>>))

\* a is found before b: an earlier record, or the same record and an
\* earlier rule, or the same rule and an earlier entry
FoundBefore(a, b) ==
  \/ a.rec < b.rec
  \/ a.rec = b.rec /\ a.rule < b.rule
  \/ a.rec = b.rec /\ a.rule = b.rule /\ a.entry < b.entry

IsPrefix(s, t) == Len(s) <= Len(t) /\ SubSeq(t, 1, Len(s)) = s

EndsWith(s, t) == Len(t) <= Len(s) /\ SubSeq(s, Len(s) - Len(t) + 1, Len(s)) = t

\* the positions in stdout of the details' header lines
DetailHeaders == {j \in 1..Len(stdout) : stdout[j].kind = "detail_header"}

C5_InOrder ==
  /\ Len(origin) = Len(code_changes)
  /\ \A a, b \in 1..Len(origin) : a < b => FoundBefore(origin[a], origin[b])
  /\ \A a \in 1..Len(origin) :
       code_changes[a].file_path = Get(SourceOf(origin[a]), "file_path", Str("unknown"))
  /\ Reported =>
       /\ Cardinality(DetailHeaders) = Len(code_changes)
       /\ \A n \in 1..Len(code_changes) :
            /\ stdout[Nth(DetailHeaders, n)].n = n
            /\ EndsWith(stdout[Nth(DetailHeaders, n)].text,
                        " -> " \o PyStr(code_changes[n].file_path))
            /\ stdout[Nth(DetailHeaders, n) + 1].text = PyStr(code_changes[n].content)
  /\ \A n \in 1..Len(saved) :
       /\ SubSeq(saved[n].name, 1, 3) = Pad3(n)
       /\ EndsWith(saved[n].text, "\n\n" \o PyStr(code_changes[n].content))

\* C5: the list of changes only grows at its end; its elements are in the
\* order record, then rule 1 before rule 2 before rule 3, then entry; and the
\* details printed and the files saved follow the list's order.
C5_ChangesKeepDiscoveryOrder ==
  [](C5_InOrder) /\ [][IsPrefix(code_changes, code_changes')]_vars

\* a run that saved changes of two records, the first found by all three rules
C5_Witness ==
  /\ pc = "exit"
  /\ exit_code = "0"
  /\ Len(saved) = Len(code_changes)
  /\ \A rule \in 1..3 : \E a \in 1..Len(origin) : origin[a].rec = 1 /\ origin[a].rule = rule
  /\ \E a \in 1..Len(origin) : origin[a].rec = 2

HasSeparator(name) == \E j \in 1..Len(name) : Ch(name, j) \in {"/", "\\"}

\* the lines before the payload in a saved file: two "# " lines and a blank one
HeaderOf(text, payload) == readlines(SubSeq(text, 1, Len(text) - Len(payload)))

\* C6: the files saved in one run have pairwise distinct names without a
\* path separator; after the save loop there is one file per change, named
\* by its 3-digit index and its kind (.diff for an edit), holding two header
\* lines and then the whole payload.
C6_OneFilePerChange ==
  /\ \A a, b \in 1..Len(saved) : a # b => saved[a].name # saved[b].name
  /\ \A a \in 1..Len(saved) : ~HasSeparator(saved[a].name)
  /\ (pc = "exit" /\ exit_code = "0" /\ OptTruthy(args.output) /\ code_changes # <<>>) =>
       /\ Len(saved) = Len(code_changes)
       /\ \A n \in 1..Len(saved) :
            LET c == code_changes[n]
                kind == IF c.tool = "Edit" THEN "_edit_" ELSE "_write_"
                head == HeaderOf(saved[n].text, c.content.a) IN
            /\ IsPrefix("00" \o ToString(n) \o kind, saved[n].name)
            /\ EndsWith(saved[n].name, ".diff") <=> c.tool = "Edit"
            /\ EndsWith(saved[n].text, c.content.a)
            /\ Len(head) = 3
            /\ IsPrefix("# Source: ", head[1])
            /\ head[2] = "# Target: " \o c.file_path.a \o "\n"
            /\ head[3] = "\n"

\* a run that saved two changes to the same path, and two more whose paths
\* differ only in their separators
C6_Witness ==
  /\ pc = "exit"
  /\ exit_code = "0"
  /\ Len(saved) >= 3
  /\ \E a, b \in 1..Len(saved) :
       /\ a # b
       /\ code_changes[a].file_path = code_changes[b].file_path
       /\ code_changes[a].tool = code_changes[b].tool
  /\ \E a, b \in 1..Len(saved) :
       /\ code_changes[a].file_path # code_changes[b].file_path
       /\ code_changes[a].tool = "Write" /\ code_changes[b].tool = "Write"
       /\ SubSeq(saved[a].name, 4, Len(saved[a].name))
            = SubSeq(saved[b].name, 4, Len(saved[b].name))

\* the changes found at entry j of record pos by a rule
FoundAt(pos, rule, j) ==
  {a \in 1..Len(origin) : origin[a] = [rec |-> pos, rule |-> rule, entry |-> j]}

\* C9: after the scan, a Write entry of tool_calls has given one create
\* change at the record's discovery index (rule 2) and, in trajectory format,
\* one more at the record's step_id or else its discovery index (rule 3); an
\* Edit entry has given one modify change in trajectory format (rule 3) and
\* none in line-delimited format.
C9_ToolCallsReadTwice ==
  Reported =>
    \A pos \in 1..Len(Iter(records)) :
      LET r == Iter(records)[pos]
          tcs == Iter(Get(r, "tool_calls", Arr(<<>>))) IN
      \A j \in 1..Len(tcs) :
        LET name == Get(tcs[j], "function_name", Str(""))
            n2 == Cardinality(FoundAt(pos, 2, j))
            n3 == Cardinality(FoundAt(pos, 3, j)) IN
        /\ \A a \in FoundAt(pos, 2, j) :
             code_changes[a].line_no = PyInt(pos) /\ code_changes[a].action = "create"
        /\ \A a \in FoundAt(pos, 3, j) :
             /\ code_changes[a].line_no = Get(r, "step_id", PyInt(pos))
             /\ code_changes[a].action = IF EqStr(name, "Edit") THEN "modify" ELSE "create"
        /\ IF format_type = "trajectory"
           THEN CASE EqStr(name, "Write") -> n2 = 1 /\ n3 = 1
                  [] EqStr(name, "Edit") -> n2 = 0 /\ n3 = 1
                  [] OTHER -> n2 = 0 /\ n3 = 0
           ELSE CASE EqStr(name, "Write") -> n2 = 1 /\ n3 = 0
                  [] OTHER -> n2 = 0 /\ n3 = 0

\* a trajectory whose first step has a step_id, a Write and an Edit
C9_Witness ==
  /\ Reported
  /\ format_type = "trajectory"
  /\ HasKey(Iter(records)[1], "step_id")
  /\ \E j \in 1..2 : Cardinality(FoundAt(1, 2, j)) = 1 /\ Cardinality(FoundAt(1, 3, j)) = 1
  /\ \E j \in 1..2 : Cardinality(FoundAt(1, 2, j)) = 0 /\ Cardinality(FoundAt(1, 3, j)) = 1
  /\ \E a, b \in 1..Len(code_changes) :
       /\ origin[a].rec = 1 /\ origin[b].rec = 1
       /\ code_changes[a].line_no = PyInt(1)
       /\ code_changes[b].line_no = Num("7")

(***************************************************************************)
(* The details of changes whose payloads are about as long as the limit.   *)
(***************************************************************************)
MaxChanges == 2

\* how far past the limit the longest payload goes
MaxOver == 2

\* n times the character c
RECURSIVE Rep(_, _)
Rep(c, n) ==
  IF n = 0 THEN ""
  ELSE LET h == Rep(c, n \div 2) IN IF n % 2 = 0 THEN h \o h ELSE h \o h \o c

\* a record whose Write carries n characters
WriteRec(n) ==
  "{\"tool_calls\":[{\"function_name\":\"Write\",\"arguments\":{\"file_path\":\"f\",\"content\":\""
  \o Rep("x", n) \o "\"}}]}"

\* a record whose Edit block has n characters, 27 of them the markers
EditRec(n) ==
  "{\"type\":\"assistant\",\"message\":{\"content\":[{\"type\":\"tool_use\",\"name\":\"Edit\",\"input\":{\"file_path\":\"g\",\"old_string\":\"\",\"new_string\":\""
  \o Rep("y", n - 27) \o "\"}}]}}"

RenderRecTexts ==
  {WriteRec(n) : n \in {0, TruncLimit - 1, TruncLimit, TruncLimit + 1, TruncLimit + MaxOver}}
  \cup {EditRec(n) : n \in {TruncLimit, TruncLimit + 1}}

InitRender ==
  /\ file \in OnDisk({JsonlOf(recs) : recs \in SeqsUpTo(RenderRecTexts, MaxChanges)})
  /\ args = [NoArgs EXCEPT !.code = TRUE]
  /\ Start

NextRender ==
  \/ main_check_file
  \/ smart_load
  \/ load_jsonl_open
  \/ load_jsonl_line
  \/ load_jsonl_return
  \/ main_check_records
  \/ extract_begin
  \/ extract_scan
  \/ extract_report

SpecRender == InitRender /\ [][NextRender]_vars

\* C7: in the details, a payload of more than 3000 characters is shown as
\* its first 3000 characters and then a notice that states its length; a
\* payload of at most 3000 characters is shown whole, with no notice.
C7_LongPayloadsAreCut ==
  Reported =>
    \A n \in 1..Len(code_changes) :
      LET payload == code_changes[n].content.a
          at == Nth(DetailHeaders, n) + 1 IN
      IF Len(payload) > 3000
      THEN /\ stdout[at].text = SubSeq(payload, 1, 3000)
           /\ stdout[at + 1] = Out("cut_notice", "", Len(payload), Null)
      ELSE /\ stdout[at].text = payload
           /\ at + 1 <= Len(stdout) => stdout[at + 1].kind # "cut_notice"

\* a report with a payload of exactly 3000 characters and one of 3001
C7_Witness ==
  /\ Reported
  /\ \E n \in 1..Len(code_changes) : Len(code_changes[n].content.a) = 3000
  /\ \E n \in 1..Len(code_changes) : Len(code_changes[n].content.a) = 3001
  /\ \E j \in 1..Len(stdout) : stdout[j] = Out("cut_notice", "", 3001, Null)

(***************************************************************************)
(* Field projection on every file of a few records.                        *)
(***************************************************************************)
MaxKeyRecs == 2

KeyRecTexts ==
  {"{\"a\":{\"b\":{\"c\":7}}}",
   "{\"a\":{\"b\":5}}",
   "{\"a\":null,\"x\":\"s\"}",
   "7",
   "{\"x\":{\"a\":1}}",
   "{\"a\":{\"b\":{\"c\":null}}}"}

KeyArgTexts ==
  {"a.b.c", "a.b", "x, q", "a.b.c,x", "a", "a,a.b, a"}

InitKeys ==
  /\ file \in OnDisk({JsonlOf(recs) : recs \in SeqsUpTo(KeyRecTexts, MaxKeyRecs)})
  /\ args \in {[NoArgs EXCEPT !.keys = StrOpt(k)] : k \in KeyArgTexts}
  /\ Start

NextKeys ==
  \/ main_check_file
  \/ smart_load
  \/ load_jsonl_open
  \/ load_jsonl_line
  \/ load_jsonl_return
  \/ main_check_records
  \/ do_show_keys

SpecKeys == InitKeys /\ [][NextKeys]_vars

\* the value a dotted path leads to: none when a step meets a value that is
\* not a mapping or a mapping without the component
RECURSIVE Reached(_, _, _)
Reached(val, parts, j) ==
  IF j > Len(parts) THEN [found |-> TRUE, v |-> val]
  ELSE IF ~IsDict(val) \/ ~HasKey(val, parts[j]) THEN [found |-> FALSE, v |-> Null]
  ELSE Reached(Get(val, parts[j], Null), parts, j + 1)

\* the entries of one record for the requested keys, from the j-th key on;
\* a path that leads to null gives an entry only when `nulls` is set
RECURSIVE EntriesFrom(_, _, _, _, _)
EntriesFrom(r, keys, j, nulls, acc) ==
  IF j > Len(keys) THEN acc
  ELSE LET got == Reached(r, split(keys[j], "."), 1) IN
    EntriesFrom(r, keys, j + 1, nulls,
                IF got.found /\ (nulls \/ got.v # Null) THEN ObjPut(acc, keys[j], got.v)
                ELSE acc)

\* the lines of the projection: one for each record with an entry, in record
\* order, numbered by the record's position
ProjectionOf(recs, keys, nulls) ==
  LET hit == {n \in 1..Len(recs) : EntriesFrom(recs[n], keys, 1, nulls, <<>>) # <<>>} IN
  [n \in 1..Cardinality(hit) |->
     [n |-> Nth(hit, n), obj |-> Obj(EntriesFrom(recs[Nth(hit, n)], keys, 1, nulls, <<>>))]]

Projected == [j \in 1..Len(stdout) |-> [n |-> stdout[j].n, obj |-> stdout[j].obj]]

KeysShown == pc = "exit" /\ Len(ran) = 2 /\ ran[2] = "show_keys" /\ exit_code = "0"

\* C8 as stated: every path that leads to a value through mappings is
\* reported under its full dotted path, whatever the value.
C8_AsStated ==
  KeysShown => Projected = ProjectionOf(Elems(records), parse_keys(args.keys.s), TRUE)

\* C8, amended: a path resolves to absent when a step meets a value that is
\* not a mapping, a missing component, or when the value reached is null;
\* otherwise the value is reported under the full dotted path.  There is one
\* line per record that resolved a path, in record order, numbered by the
\* record's 1-based position.
C8_ProjectionSkipsAbsentAndNull ==
  KeysShown => Projected = ProjectionOf(Elems(records), parse_keys(args.keys.s), FALSE)

\* a projection of a.b.c over a record that resolves it and, before it, one
\* where b is not a mapping
C8_Witness ==
  /\ KeysShown
  /\ parse_keys(args.keys.s) = <<"a.b.c", "x">>
  /\ Len(Elems(records)) = 2
  /\ Reached(Elems(records)[1], <<"a", "b">>, 1).v = Num("5")
  /\ Projected = <<[n |-> 2, obj |-> Obj(<<[k |-> "a.b.c", v |-> Num("7")]>>)]>>

(***************************************************************************)
(* Claims on the whole command line.                                       *)
(***************************************************************************)
\* load_trajectory_json: [fault, records]; main never calls it
load_trajectory_json(text) ==
  LET data == loads(text) IN
  IF ~data.ok THEN [fault |-> TRUE, records |-> Null]
  ELSE IF IsDict(data.v) /\ HasKey(data.v, "steps")
  THEN [fault |-> FALSE, records |-> Get(data.v, "steps", Arr(<<>>))]
  ELSE IF data.v.t = "arr" THEN [fault |-> FALSE, records |-> data.v]
  ELSE [fault |-> FALSE, records |-> Arr(<<data.v>>)]

\* main went past both of its checks with a list of records and -l N
LineAsked ==
  /\ pc = "exit"
  /\ file.exists
  /\ records.t = "arr"
  /\ Len(records.e) >= 1
  /\ args.line.set
  /\ ~args.truncate.set

\* C1: with the line option N over L >= 1 records, a run prints exactly the
\* N-th record and exits 0 when 1 <= N <= L, and exits non-zero with no
\* output for every other N, 0 and the negative ones included.
C1_LineOrError ==
  LineAsked =>
    LET N == args.line.n
        L == Len(records.e) IN
    IF 1 <= N /\ N <= L
    THEN /\ exit_code = "0"
         /\ Len(stdout) = 2
         /\ stdout[2].obj = Elems(records)[N]
         /\ loads(stdout[2].text) = [ok |-> TRUE, v |-> Elems(records)[N]]
    ELSE exit_code # "0" /\ stdout = <<>>

\* C2: after smart_load, a file that is one JSON object with a steps array
\* has given that array, tagged trajectory, and a file that is one bare JSON
\* array has given that array as the records.
C2_DetectsBothDocuments ==
  (pc = "loaded") =>
    LET data == loads(file.content) IN
    /\ (data.ok /\ IsDict(data.v) /\ HasKey(data.v, "steps")) =>
         records = Get(data.v, "steps", Null) /\ format_type = "trajectory"
    /\ (data.ok /\ data.v.t = "arr") => records = data.v

\* C3: a run ends with a fatal diagnostic and exit 1, or with exit 0 (after
\* warnings or a soft report or neither); no exception is left uncaught.
C3_NoUncaughtException ==
  pc = "exit" => \/ exit_code = "1" /\ stderr # <<>>
                 \/ exit_code = "0"

\* the operation the options choose, by the order line, type filter, field
\* projection, analysis, code extraction, and the summary for none
Chosen(a) ==
  CASE OptTruthy(a.line) -> "show_line"
    [] ~OptTruthy(a.line) /\ OptTruthy(a.type_filter) -> "show_by_type"
    [] ~OptTruthy(a.line) /\ ~OptTruthy(a.type_filter) /\ OptTruthy(a.keys) -> "show_keys"
    [] ~OptTruthy(a.line) /\ ~OptTruthy(a.type_filter) /\ ~OptTruthy(a.keys) /\ a.analyze ->
         "analyze_claude_code"
    [] ~OptTruthy(a.line) /\ ~OptTruthy(a.type_filter) /\ ~OptTruthy(a.keys) /\ ~a.analyze
         /\ a.code -> "extract_agent_code"
    [] OTHER -> "show_summary"

\* C10: a run calls smart_load first and then at most one operation; past
\* both checks it calls exactly the operation the options choose by their
\* priority, the summary exactly when no option is truthy; it calls no
\* operation when the file is missing or no record was loaded.
C10_OneOperationByPriority ==
  /\ ran \in {<<>>, <<"smart_load">>, <<"smart_load", Chosen(args)>>}
  /\ Len(ran) = 2 => file.exists /\ Truthy(records) /\ pc \notin {"main", "smart_load", "loaded"}
  /\ pc = "exit" =>
       IF ~file.exists THEN ran = <<>>
       ELSE IF ~Truthy(records) THEN ran = <<"smart_load">>
       ELSE ran = <<"smart_load", Chosen(args)>>
  /\ (Len(ran) = 2 /\ ran[2] = "show_summary") =>
       ~(OptTruthy(args.line) \/ OptTruthy(args.type_filter) \/ OptTruthy(args.keys)
         \/ args.analyze \/ args.code)

\* a run with -l 1, a type filter and --code, which showed the line
C10_Witness ==
  /\ pc = "exit"
  /\ args.line = IntOpt(1)
  /\ OptTruthy(args.type_filter)
  /\ OptTruthy(args.keys)
  /\ args.analyze
  /\ args.code
  /\ ran = <<"smart_load", "show_line">>
  /\ exit_code = "0"

====
